---------------------------- MODULE Spec2Model ----------------------------
(***************************************************************************)
(* Model of src/src/cache.c: a trace-driven simulator of split L1          *)
(* instruction / data caches over a shared, optionally inclusive L2.       *)
(*                                                                         *)
(* The C code works on uint32_t words.  The model keeps the word           *)
(* arithmetic (shifts that drop high bits, the valid flag in the top bit   *)
(* of a stored tag, the all-ones recency sentinel) on words of WordBits    *)
(* bits, so that the top bit is reachable by the addresses the model enumerates. *)
(***************************************************************************)
EXTENDS Integers, Sequences, FiniteSets

\* ------------------------------------------------------------------ bounds

\* Width of the machine word standing for uint32_t.
WordBits == 6

\* Number of accesses the driver feeds to the hierarchy in one run.
MaxSteps == 4

\* Length of a run that is replayed after a second init_cache.
MaxReplay == 3

\* --------------------------------------------------------- word arithmetic

WordMod == 2 ^ WordBits

\* UINT32_MAX: the recency value marking a forced-invalid L1 slot.
UINT32_MAX == WordMod - 1

\* 0x80000000: the top bit of a stored tag, used as the valid flag.
ValidBit == 2 ^ (WordBits - 1)

RECURSIVE BitOr(_, _)
BitOr(a, b) ==
  IF a = 0 THEN b
  ELSE IF b = 0 THEN a
  ELSE (IF a % 2 = 1 \/ b % 2 = 1 THEN 1 ELSE 0) + 2 * BitOr(a \div 2, b \div 2)

RECURSIVE BitAnd(_, _)
BitAnd(a, b) ==
  IF a = 0 \/ b = 0 THEN 0
  ELSE (IF a % 2 = 1 /\ b % 2 = 1 THEN 1 ELSE 0) + 2 * BitAnd(a \div 2, b \div 2)

\* x << n on a word: the bits shifted past the top are lost.
Shl(x, n) == (x * (2 ^ n)) % WordMod

\* x >> n on a word.
Shr(x, n) == x \div (2 ^ n)

\* (uint32_t) log2(n), exact for the powers of two the configuration holds.
RECURSIVE Log2(_)
Log2(n) == IF n <= 1 THEN 0 ELSE 1 + Log2(n \div 2)

\* -------------------------------------------------------- configuration

\* Fixed latencies of the configuration (set by the driver before init_cache).
icacheHitTime == 2
dcacheHitTime == 1
l2cacheHitTime == 5
memspeed == 50

Cfg(bs, iS, iA, dS, dA, lS, lA, inc) ==
  [blocksize |-> bs, icacheSets |-> iS, icacheAssoc |-> iA,
   dcacheSets |-> dS, dcacheAssoc |-> dA,
   l2cacheSets |-> lS, l2cacheAssoc |-> lA, inclusive |-> inc]

\* The configurations the driver may supply: set counts 0 (level bypassed) or a
\* power of two, a power-of-two block size, and, when inclusive, no L1
\* associativity above L2's.
Configs ==
  { Cfg(1, 1, 2, 1, 2, 1, 2, 1),
    Cfg(1, 1, 2, 1, 2, 1, 2, 0),
    Cfg(4, 0, 1, 2, 1, 2, 1, 1),
    Cfg(1, 0, 1, 1, 1, 1, 1, 1),
    Cfg(4, 2, 1, 1, 2, 2, 2, 1),
    Cfg(1, 1, 1, 2, 2, 0, 1, 0),
    Cfg(4, 0, 1, 0, 1, 1, 2, 0),
    Cfg(1, 0, 1, 0, 1, 0, 1, 0),
    Cfg(4, 1, 2, 2, 2, 1, 2, 1),
    Cfg(4, 2, 2, 2, 1, 2, 2, 0) }

VARIABLES
  icacheSets, icacheAssoc, dcacheSets, dcacheAssoc,
  l2cacheSets, l2cacheAssoc, inclusive, blocksize,
  icacheRefs, icacheMisses, icachePenalties,
  dcacheRefs, dcacheMisses, dcachePenalties,
  l2cacheRefs, l2cacheMisses, l2cachePenalties,
  l2_did_evict, l2_evicted_addr,
  l1i_tag_storage, l1i_lru_storage,
  l1d_tag_storage, l1d_lru_storage,
  l2_tag_storage, l2_lru_storage,
  hist, prev

cfgVars == <<icacheSets, icacheAssoc, dcacheSets, dcacheAssoc,
             l2cacheSets, l2cacheAssoc, inclusive, blocksize>>
iVars == <<icacheRefs, icacheMisses, icachePenalties,
           l1i_tag_storage, l1i_lru_storage>>
dVars == <<dcacheRefs, dcacheMisses, dcachePenalties,
           l1d_tag_storage, l1d_lru_storage>>
l2Vars == <<l2cacheRefs, l2cacheMisses, l2cachePenalties,
            l2_did_evict, l2_evicted_addr, l2_tag_storage, l2_lru_storage>>
vars == <<cfgVars, iVars, dVars, l2Vars, hist, prev>>

\* The addresses the driver feeds: several blocks per set, an unaligned
\* address, and (for blocksize 1) the address whose only set bit is the top one.
Addrs == IF blocksize = 1 THEN {0, 1, 4, ValidBit} ELSE {0, 6, 16, 20}

\* The nine statistics counters.
Stats == <<icacheRefs, icacheMisses, icachePenalties,
           dcacheRefs, dcacheMisses, dcachePenalties,
           l2cacheRefs, l2cacheMisses, l2cachePenalties>>

\* prev: the calls (with their latencies) and final statistics of the run that
\* ended when init_cache was called again; NoRun before that.
NoRun == [run |-> FALSE, calls |-> << >>, stats |-> << >>]

\* calloc'ed per-set arrays: sets x assoc zero words.
ZeroStorage(sets, assoc) == [s \in 0 .. sets - 1 |-> [w \in 0 .. assoc - 1 |-> 0]]

init_cache ==
  /\ icacheRefs = 0 /\ icacheMisses = 0 /\ icachePenalties = 0
  /\ dcacheRefs = 0 /\ dcacheMisses = 0 /\ dcachePenalties = 0
  /\ l2cacheRefs = 0 /\ l2cacheMisses = 0 /\ l2cachePenalties = 0
  /\ l1i_tag_storage = ZeroStorage(icacheSets, icacheAssoc)
  /\ l1i_lru_storage = ZeroStorage(icacheSets, icacheAssoc)
  /\ l1d_tag_storage = ZeroStorage(dcacheSets, dcacheAssoc)
  /\ l1d_lru_storage = ZeroStorage(dcacheSets, dcacheAssoc)
  /\ l2_tag_storage = ZeroStorage(l2cacheSets, l2cacheAssoc)
  /\ l2_lru_storage = ZeroStorage(l2cacheSets, l2cacheAssoc)
  /\ l2_did_evict = FALSE

Init ==
  /\ \E c \in Configs :
       /\ blocksize = c.blocksize
       /\ icacheSets = c.icacheSets /\ icacheAssoc = c.icacheAssoc
       /\ dcacheSets = c.dcacheSets /\ dcacheAssoc = c.dcacheAssoc
       /\ l2cacheSets = c.l2cacheSets /\ l2cacheAssoc = c.l2cacheAssoc
       /\ inclusive = c.inclusive
  /\ l2_evicted_addr = 0   \* a zero-initialized global, not set by init_cache
  /\ init_cache
  /\ hist = << >>
  /\ prev = NoRun

\* ----------------------------------------------------- address decoding

\* index = (addr >> blocksize_bitwidth) & (sets - 1)
IndexOf(addr, sets) == BitAnd(Shr(addr, Log2(blocksize)), sets - 1)

\* Faulty variant: the valid flag is not set in the looked-up tag.
TagOf_NoFlag(addr, sets) == Shr(Shr(addr, Log2(blocksize)), Log2(sets))

\* tag = ((addr >> blocksize_bitwidth) >> index_bitwidth) | 0x80000000
TagOf(addr, sets) == BitOr(Shr(Shr(addr, Log2(blocksize)), Log2(sets)), ValidBit)

\* ------------------------------------------------------ per-set helpers

Min(S) == CHOOSE x \in S : \A y \in S : x <= y

\* Faulty variant: the tag scan stops after way 0.
MatchingWays_FirstWayOnly(tags, assoc, tag) == {i \in {0} : tags[i] = tag}

\* The ways of a set whose stored tag equals tag.
MatchingWays(tags, assoc, tag) == {i \in 0 .. assoc - 1 : tags[i] = tag}

\* The tag scan returns at the first matching way.
HitWay(tags, assoc, tag) == Min(MatchingWays(tags, assoc, tag))

\* Faulty variant: an L1 hit that bumps every recency, the sentinel included.
L1HitLru_AgesSentinel(lru, assoc, i) ==
  [j \in 0 .. assoc - 1 |-> IF j = i THEN 0 ELSE (lru[j] + 1) % WordMod]

\* L1 hit: every recency that is not the sentinel is bumped, the hit way is 0.
L1HitLru(lru, assoc, i) ==
  [j \in 0 .. assoc - 1 |->
     IF j = i THEN 0 ELSE IF lru[j] # UINT32_MAX THEN lru[j] + 1 ELSE lru[j]]

\* L2 hit: every recency is bumped, the hit way is 0.
L2HitLru(lru, assoc, i) ==
  [j \in 0 .. assoc - 1 |-> IF j = i THEN 0 ELSE (lru[j] + 1) % WordMod]

\* The victim scan: index_to_evict and largest start at 0; way i replaces the
\* candidate when its recency is strictly larger than the largest seen.
RECURSIVE ScanVictim(_, _, _, _, _)
ScanVictim(lru, assoc, i, largest, index_to_evict) ==
  IF i >= assoc THEN index_to_evict
  ELSE IF lru[i] > largest
       THEN ScanVictim(lru, assoc, i + 1, lru[i], i)
       ELSE ScanVictim(lru, assoc, i + 1, largest, index_to_evict)

\* Faulty variant: the victim is always way 0 (no recency order).
VictimWay_AlwaysFirst(lru, assoc) == 0

VictimWay(lru, assoc) == ScanVictim(lru, assoc, 0, 0, 0)

\* L1 miss: the scan ages every non-sentinel way, then the victim is set to 0.
L1MissLru(lru, assoc, v) ==
  [j \in 0 .. assoc - 1 |->
     IF j = v THEN 0 ELSE IF lru[j] # UINT32_MAX THEN lru[j] + 1 ELSE lru[j]]

\* L2 miss: the scan ages every way, then the victim is set to 0.
L2MissLru(lru, assoc, v) ==
  [j \in 0 .. assoc - 1 |-> IF j = v THEN 0 ELSE (lru[j] + 1) % WordMod]


\* ------------------------------------------------------------ L2 access

\* l2_evicted_addr = ((tags[index_to_evict] << blocksize_bitwidth) << index_bitwidth)
\*                   | (index_to_evict << blocksize_bitwidth)
\* The size_t right operand is truncated to a word by the assignment.
EvictedAddr(victim_tag, index_to_evict) ==
  BitOr(Shl(Shl(victim_tag, Log2(blocksize)), Log2(l2cacheSets)),
        (index_to_evict * (2 ^ Log2(blocksize))) % WordMod)

\* Faulty variant: l2cache_access that does not clear the eviction signal on
\* entry, so the value left by an earlier access survives.
l2_did_evict_on_entry_Stale == l2_did_evict

\* l2cache_access clears the eviction signal before anything else, the bypass
\* check included.
l2_did_evict_on_entry == FALSE

\* The L2 state and latency that l2cache_access(addr) leaves behind.
l2cache_access(addr) ==
  IF l2cacheSets = 0 THEN
    [time |-> memspeed, did_evict |-> l2_did_evict_on_entry,
     evicted_addr |-> l2_evicted_addr,
     tags |-> l2_tag_storage, lru |-> l2_lru_storage,
     refs |-> l2cacheRefs, misses |-> l2cacheMisses, penalties |-> l2cachePenalties]
  ELSE
    LET index == IndexOf(addr, l2cacheSets)
        tag == TagOf(addr, l2cacheSets)
        tags == l2_tag_storage[index]
        lru == l2_lru_storage[index]
    IN IF MatchingWays(tags, l2cacheAssoc, tag) # {} THEN
         LET i == HitWay(tags, l2cacheAssoc, tag) IN
         [time |-> l2cacheHitTime, did_evict |-> l2_did_evict_on_entry,
          evicted_addr |-> l2_evicted_addr,
          tags |-> l2_tag_storage,
          lru |-> [l2_lru_storage EXCEPT ![index] = L2HitLru(lru, l2cacheAssoc, i)],
          refs |-> l2cacheRefs + 1, misses |-> l2cacheMisses,
          penalties |-> l2cachePenalties]
       ELSE
         LET index_to_evict == VictimWay(lru, l2cacheAssoc)
             valid == BitAnd(tags[index_to_evict], ValidBit) # 0
         IN
         [time |-> l2cacheHitTime + memspeed,
          did_evict |-> IF valid THEN TRUE ELSE l2_did_evict_on_entry,
          evicted_addr |-> IF valid THEN EvictedAddr(tags[index_to_evict], index_to_evict)
                           ELSE l2_evicted_addr,
          tags |-> [l2_tag_storage EXCEPT ![index][index_to_evict] = tag],
          lru |-> [l2_lru_storage EXCEPT
                     ![index] = L2MissLru(lru, l2cacheAssoc, index_to_evict)],
          refs |-> l2cacheRefs + 1, misses |-> l2cacheMisses + 1,
          penalties |-> l2cachePenalties + memspeed]

\* Faulty variant: an L2 miss that does not add memspeed to l2cachePenalties.
L2Commit_DropsPenalty(r) ==
  /\ l2_did_evict' = r.did_evict
  /\ l2_evicted_addr' = r.evicted_addr
  /\ l2_tag_storage' = r.tags
  /\ l2_lru_storage' = r.lru
  /\ l2cacheRefs' = r.refs
  /\ l2cacheMisses' = r.misses
  /\ l2cachePenalties' = l2cachePenalties

\* The globals l2cache_access wrote.
L2Commit(r) ==
  /\ l2_did_evict' = r.did_evict
  /\ l2_evicted_addr' = r.evicted_addr
  /\ l2_tag_storage' = r.tags
  /\ l2_lru_storage' = r.lru
  /\ l2cacheRefs' = r.refs
  /\ l2cacheMisses' = r.misses
  /\ l2cachePenalties' = r.penalties

\* ------------------------------------------------- inclusion enforcement

\* Faulty variant: an enforcer that acts on l2_did_evict alone, without
\* consulting the inclusive flag.
EnforceInclusion_IgnoresFlag(tagStore, lruStore, sets, assoc, r) ==
  IF r.did_evict THEN
    LET evicted_index == IndexOf(r.evicted_addr, sets)
        evicted_tag == TagOf(r.evicted_addr, sets)
        hit == MatchingWays(tagStore[evicted_index], assoc, evicted_tag)
    IN [tags |-> [tagStore EXCEPT ![evicted_index] =
                    [i \in 0 .. assoc - 1 |-> IF i \in hit THEN 0 ELSE @[i]]],
        lru |-> [lruStore EXCEPT ![evicted_index] =
                    [i \in 0 .. assoc - 1 |-> IF i \in hit THEN UINT32_MAX ELSE @[i]]]]
  ELSE [tags |-> tagStore, lru |-> lruStore]

\* if (inclusive && l2_did_evict): every way of the L1 set the evicted address
\* decodes to (with this L1's set count) whose tag matches is cleared and its
\* recency set to the sentinel.  Returns the L1 arrays after the pass.
EnforceInclusion(tagStore, lruStore, sets, assoc, r) ==
  IF inclusive # 0 /\ r.did_evict THEN
    LET evicted_index == IndexOf(r.evicted_addr, sets)
        evicted_tag == TagOf(r.evicted_addr, sets)
        hit == MatchingWays(tagStore[evicted_index], assoc, evicted_tag)
    IN [tags |-> [tagStore EXCEPT ![evicted_index] =
                    [i \in 0 .. assoc - 1 |-> IF i \in hit THEN 0 ELSE @[i]]],
        lru |-> [lruStore EXCEPT ![evicted_index] =
                    [i \in 0 .. assoc - 1 |-> IF i \in hit THEN UINT32_MAX ELSE @[i]]]]
  ELSE [tags |-> tagStore, lru |-> lruStore]

\* ------------------------------------------------------------ L1 access

\* What an L1 (instruction or data) access does to that L1's arrays and
\* counters and to L2; both L1s run this same code on their own globals.
\* A hit returns before L2 is called; a miss loads the tag, calls L2 (field
\* l2) and then enforces inclusion on the arrays that already hold the new tag.
L1Access(tagStore, lruStore, sets, assoc, hitTime, refs, misses, penalties, addr) ==
  LET index == IndexOf(addr, sets)
      tag == TagOf(addr, sets)
      tags == tagStore[index]
      lru == lruStore[index]
  IN IF MatchingWays(tags, assoc, tag) # {} THEN
       LET i == HitWay(tags, assoc, tag) IN
       [hit |-> TRUE, time |-> hitTime,
        tags |-> tagStore,
        lru |-> [lruStore EXCEPT ![index] = L1HitLru(lru, assoc, i)],
        refs |-> refs + 1, misses |-> misses, penalties |-> penalties]
     ELSE
       LET index_to_evict == VictimWay(lru, assoc)
           loadedTags == [tagStore EXCEPT ![index][index_to_evict] = tag]
           loadedLru == [lruStore EXCEPT ![index] = L1MissLru(lru, assoc, index_to_evict)]
           r == l2cache_access(addr)
           e == EnforceInclusion(loadedTags, loadedLru, sets, assoc, r)
       IN
       [hit |-> FALSE, time |-> hitTime + r.time,
        tags |-> e.tags, lru |-> e.lru,
        refs |-> refs + 1, misses |-> misses + 1, penalties |-> penalties + r.time,
        l2 |-> r]

\* if (icacheSets == 0) return l2cache_access(addr): no L1-I global is touched.
icache_bypass(addr) ==
  LET r == l2cache_access(addr) IN
  /\ L2Commit(r)
  /\ UNCHANGED iVars
  /\ hist' = Append(hist, [op |-> "I", addr |-> addr, lat |-> r.time])

\* Faulty variant: the bypassed L1-D still counts the reference.
dcache_bypass_CountsRef(addr) ==
  LET r == l2cache_access(addr) IN
  /\ L2Commit(r)
  /\ dcacheRefs' = dcacheRefs + 1
  /\ UNCHANGED <<dcacheMisses, dcachePenalties, l1d_tag_storage, l1d_lru_storage>>
  /\ hist' = Append(hist, [op |-> "D", addr |-> addr, lat |-> r.time])

\* if (dcacheSets == 0) return l2cache_access(addr): no L1-D global is touched.
dcache_bypass(addr) ==
  LET r == l2cache_access(addr) IN
  /\ L2Commit(r)
  /\ UNCHANGED dVars
  /\ hist' = Append(hist, [op |-> "D", addr |-> addr, lat |-> r.time])

\* icache_access reads and writes no L1-D global (and never the configuration).
icache_frame == UNCHANGED <<cfgVars, dVars>>

\* Faulty variant: a dcache_access pasted from icache_access that still bumps icacheRefs.
dcache_frame_BumpsIcacheRefs ==
  /\ icacheRefs' = icacheRefs + 1
  /\ UNCHANGED <<cfgVars, icacheMisses, icachePenalties, l1i_tag_storage, l1i_lru_storage>>

\* dcache_access reads and writes no L1-I global (and never the configuration).
dcache_frame == UNCHANGED <<cfgVars, iVars>>

\* icache_access(addr)
icache_access(addr) ==
  /\ Len(hist) < MaxSteps
  /\ IF icacheSets = 0 THEN icache_bypass(addr)
     ELSE
       LET a == L1Access(l1i_tag_storage, l1i_lru_storage, icacheSets, icacheAssoc,
                         icacheHitTime, icacheRefs, icacheMisses, icachePenalties, addr)
       IN
       /\ l1i_tag_storage' = a.tags
       /\ l1i_lru_storage' = a.lru
       /\ icacheRefs' = a.refs
       /\ icacheMisses' = a.misses
       /\ icachePenalties' = a.penalties
       /\ IF a.hit THEN UNCHANGED l2Vars ELSE L2Commit(a.l2)
       /\ hist' = Append(hist, [op |-> "I", addr |-> addr, lat |-> a.time])
  /\ icache_frame
  /\ UNCHANGED prev

\* dcache_access(addr)
dcache_access(addr) ==
  /\ Len(hist) < MaxSteps
  /\ IF dcacheSets = 0 THEN dcache_bypass(addr)
     ELSE
       LET a == L1Access(l1d_tag_storage, l1d_lru_storage, dcacheSets, dcacheAssoc,
                         dcacheHitTime, dcacheRefs, dcacheMisses, dcachePenalties, addr)
       IN
       /\ l1d_tag_storage' = a.tags
       /\ l1d_lru_storage' = a.lru
       /\ dcacheRefs' = a.refs
       /\ dcacheMisses' = a.misses
       /\ dcachePenalties' = a.penalties
       /\ IF a.hit THEN UNCHANGED l2Vars ELSE L2Commit(a.l2)
       /\ hist' = Append(hist, [op |-> "D", addr |-> addr, lat |-> a.time])
  /\ dcache_frame
  /\ UNCHANGED prev

InstructionAccess == \E addr \in Addrs : icache_access(addr)

DataAccess == \E addr \in Addrs : dcache_access(addr)

Next == InstructionAccess \/ DataAccess

Spec == Init /\ [][Next]_vars

\* ------------------------------------------- a second run after init_cache

\* Faulty variant: init_cache that allocates fresh L1 arrays but leaves the L2
\* arrays of the previous run in place.
init_cache_again_KeepsL2 ==
  /\ icacheRefs' = 0 /\ icacheMisses' = 0 /\ icachePenalties' = 0
  /\ dcacheRefs' = 0 /\ dcacheMisses' = 0 /\ dcachePenalties' = 0
  /\ l2cacheRefs' = 0 /\ l2cacheMisses' = 0 /\ l2cachePenalties' = 0
  /\ l1i_tag_storage' = ZeroStorage(icacheSets, icacheAssoc)
  /\ l1i_lru_storage' = ZeroStorage(icacheSets, icacheAssoc)
  /\ l1d_tag_storage' = ZeroStorage(dcacheSets, dcacheAssoc)
  /\ l1d_lru_storage' = ZeroStorage(dcacheSets, dcacheAssoc)
  /\ l2_did_evict' = FALSE
  /\ UNCHANGED <<cfgVars, l2_evicted_addr, l2_tag_storage, l2_lru_storage>>

\* init_cache called on a hierarchy that has already run: the counters are
\* zeroed, every array is allocated anew and zeroed, l2_did_evict is cleared;
\* the configuration and l2_evicted_addr keep their values.
init_cache_again ==
  /\ icacheRefs' = 0 /\ icacheMisses' = 0 /\ icachePenalties' = 0
  /\ dcacheRefs' = 0 /\ dcacheMisses' = 0 /\ dcachePenalties' = 0
  /\ l2cacheRefs' = 0 /\ l2cacheMisses' = 0 /\ l2cachePenalties' = 0
  /\ l1i_tag_storage' = ZeroStorage(icacheSets, icacheAssoc)
  /\ l1i_lru_storage' = ZeroStorage(icacheSets, icacheAssoc)
  /\ l1d_tag_storage' = ZeroStorage(dcacheSets, dcacheAssoc)
  /\ l1d_lru_storage' = ZeroStorage(dcacheSets, dcacheAssoc)
  /\ l2_tag_storage' = ZeroStorage(l2cacheSets, l2cacheAssoc)
  /\ l2_lru_storage' = ZeroStorage(l2cacheSets, l2cacheAssoc)
  /\ l2_did_evict' = FALSE
  /\ UNCHANGED <<cfgVars, l2_evicted_addr>>

\* The first run: any calls, up to MaxReplay of them.
FirstRun ==
  /\ ~prev.run
  /\ Len(hist) < MaxReplay
  /\ Next

\* The driver ends the first run and initializes the hierarchy again.
Restart ==
  /\ ~prev.run
  /\ Len(hist) >= 1
  /\ init_cache_again
  /\ prev' = [run |-> TRUE, calls |-> hist, stats |-> Stats]
  /\ hist' = << >>

\* The second run feeds the calls of the first, in order.
ReplayInstruction ==
  /\ prev.run
  /\ Len(hist) < Len(prev.calls)
  /\ prev.calls[Len(hist) + 1].op = "I"
  /\ icache_access(prev.calls[Len(hist) + 1].addr)

ReplayData ==
  /\ prev.run
  /\ Len(hist) < Len(prev.calls)
  /\ prev.calls[Len(hist) + 1].op = "D"
  /\ dcache_access(prev.calls[Len(hist) + 1].addr)

ReplayNext == FirstRun \/ Restart \/ ReplayInstruction \/ ReplayData

SpecReplay == Init /\ [][ReplayNext]_vars


\* ------------------------------------------------- vocabulary of the claims

\* Whether a cache (its tag arrays, set count and associativity given) holds
\* the block of addr: some way of the set addr decodes to stores addr's tag.
Holds(tagStore, sets, assoc, addr) ==
  /\ sets # 0
  /\ \E w \in 0 .. assoc - 1 : tagStore[IndexOf(addr, sets)][w] = TagOf(addr, sets)

\* A stored tag has its valid flag set.
IsValid(t) == BitAnd(t, ValidBit) # 0

\* The block address a valid slot stands for: the tag without its flag and the
\* set index it is stored under, ((tag_without_flag) * sets + index) * blocksize.
BlockAddr(t, index, sets) == ((t - ValidBit) * sets + index) * blocksize

\* The call that made this step, as recorded in the history.
LastCall == hist'[Len(hist')]

\* This step's call reached L2 (an L2 lookup was made).
L2Accessed == l2cacheRefs' = l2cacheRefs + 1

\* The L2 set and way this step's L2 miss overwrote.
L2VictimSet == IndexOf(LastCall.addr, l2cacheSets)
L2VictimWayNow == VictimWay(l2_lru_storage[L2VictimSet], l2cacheAssoc)
L2VictimTag == l2_tag_storage[L2VictimSet][L2VictimWayNow]

\* This step's L2 access missed and replaced a valid block.
L2EvictedValid ==
  /\ L2Accessed
  /\ l2cacheMisses' = l2cacheMisses + 1
  /\ IsValid(L2VictimTag)

\* The block this step evicted from L2.
L2EvictedBlock == BlockAddr(L2VictimTag, L2VictimSet, l2cacheSets)

\* The documented precondition of inclusion: no enabled L1 is more
\* associative than L2.
AssocOk ==
  /\ (icacheSets # 0 => icacheAssoc <= l2cacheAssoc)
  /\ (dcacheSets # 0 => dcacheAssoc <= l2cacheAssoc)

AllEnabled == icacheSets # 0 /\ dcacheSets # 0 /\ l2cacheSets # 0

\* ---------------------------------------------------------------- claims

\* C1: with inclusive=1 and every enabled L1 no more associative than L2, when
\* a call's L2 access evicts a valid block B, B is absent from the L1 that
\* issued the call right after the call returns.
C1_Step ==
  (inclusive = 1 /\ AssocOk /\ L2EvictedValid) =>
     /\ (LastCall.op = "I" /\ icacheSets # 0) =>
           ~Holds(l1i_tag_storage', icacheSets, icacheAssoc, L2EvictedBlock)
     /\ (LastCall.op = "D" /\ dcacheSets # 0) =>
           ~Holds(l1d_tag_storage', dcacheSets, dcacheAssoc, L2EvictedBlock)

C1_EvictedAbsentFromIssuingL1 == [][C1_Step]_vars

\* C2: with inclusive=1, all three levels enabled and the associativity
\* precondition, every block in a valid slot of L1-I or L1-D is also in L2.
C2_InclusionInvariant ==
  (inclusive = 1 /\ AllEnabled /\ AssocOk) =>
     /\ \A s \in 0 .. icacheSets - 1 : \A w \in 0 .. icacheAssoc - 1 :
          IsValid(l1i_tag_storage[s][w]) =>
            Holds(l2_tag_storage, l2cacheSets, l2cacheAssoc,
                  BlockAddr(l1i_tag_storage[s][w], s, icacheSets))
     /\ \A s \in 0 .. dcacheSets - 1 : \A w \in 0 .. dcacheAssoc - 1 :
          IsValid(l1d_tag_storage[s][w]) =>
            Holds(l2_tag_storage, l2cacheSets, l2cacheAssoc,
                  BlockAddr(l1d_tag_storage[s][w], s, dcacheSets))

\* C3: whenever an L2 miss replaces a valid block, the evicted address L2
\* records is ((tag without flag) * l2cacheSets + setIndex) * blocksize for the
\* set index and tag the block was stored under.
C3_Step ==
  L2EvictedValid =>
     /\ l2_did_evict'
     /\ l2_evicted_addr' = L2EvictedBlock

C3_EvictedAddrRoundTrip == [][C3_Step]_vars


\* ------------------------------------------------ runs seen by one level

Levels == {"I", "D", "L2"}

LevelSets(X) == IF X = "I" THEN icacheSets ELSE IF X = "D" THEN dcacheSets ELSE l2cacheSets

LevelAssoc(X) ==
  IF X = "I" THEN icacheAssoc ELSE IF X = "D" THEN dcacheAssoc ELSE l2cacheAssoc

LevelTags(X) ==
  IF X = "I" THEN l1i_tag_storage
  ELSE IF X = "D" THEN l1d_tag_storage ELSE l2_tag_storage

LevelHolds(X, addr) == Holds(LevelTags(X), LevelSets(X), LevelAssoc(X), addr)

\* A recorded call looked up L2: its L1 is bypassed, or it missed in its L1
\* (a call that hits in its L1 returns that L1's hit time and nothing else).
ReachedL2(e) ==
  \/ e.op = "I" /\ (icacheSets = 0 \/ e.lat # icacheHitTime)
  \/ e.op = "D" /\ (dcacheSets = 0 \/ e.lat # dcacheHitTime)

\* A recorded call is an access of level X.
AtLevel(X, e) ==
  IF X = "L2" THEN ReachedL2(e) ELSE e.op = X

\* Every call since init_cache was an access of the enabled level X, and all
\* of them decode to the same set of X.
RunAtLevel(X) ==
  /\ LevelSets(X) # 0
  /\ \A k \in 1 .. Len(hist) : AtLevel(X, hist[k])
  /\ \A k \in 1 .. Len(hist) :
        IndexOf(hist[k].addr, LevelSets(X)) = IndexOf(hist[1].addr, LevelSets(X))

BlockOf(addr) == addr \div blocksize

\* The first n calls are to pairwise distinct blocks.
DistinctBlocks(n) ==
  \A j, k \in 1 .. n : j # k => BlockOf(hist[j].addr) # BlockOf(hist[k].addr)

\* The first n calls decode, at level X, to pairwise distinct stored tags.
DistinctTags(X, n) ==
  \A j, k \in 1 .. n :
     j # k => TagOf(hist[j].addr, LevelSets(X)) # TagOf(hist[k].addr, LevelSets(X))

\* After a run of distinct blocks into one set of X (N its associativity):
\* up to N calls every block is resident; after N+1 calls exactly the first is gone.
FillOutcome(X) ==
  LET N == LevelAssoc(X) IN
  /\ Len(hist) <= N => \A k \in 1 .. Len(hist) : LevelHolds(X, hist[k].addr)
  /\ Len(hist) = N + 1 =>
        /\ ~LevelHolds(X, hist[1].addr)
        /\ \A k \in 2 .. N + 1 : LevelHolds(X, hist[k].addr)

\* N distinct blocks, then one of them again, then a new block (N+2 calls).
ShieldRun(X) ==
  LET N == LevelAssoc(X) IN
  /\ RunAtLevel(X)
  /\ Len(hist) = N + 2
  /\ DistinctBlocks(N)
  /\ \E k \in 1 .. N : BlockOf(hist[k].addr) = BlockOf(hist[N + 1].addr)
  /\ \A k \in 1 .. N : BlockOf(hist[k].addr) # BlockOf(hist[N + 2].addr)

L1HitTime(op) == IF op = "I" THEN icacheHitTime ELSE dcacheHitTime

L1Sets(op) == IF op = "I" THEN icacheSets ELSE dcacheSets

\* The call's own L1 held addr / L2 held addr, in the state before the call.
InOwnL1(op, addr) ==
  IF op = "I" THEN Holds(l1i_tag_storage, icacheSets, icacheAssoc, addr)
  ELSE Holds(l1d_tag_storage, dcacheSets, dcacheAssoc, addr)

InL2(addr) == Holds(l2_tag_storage, l2cacheSets, l2cacheAssoc, addr)

\* C5: with all levels enabled a call returns the L1 hit time if the block was
\* in that L1 before the call, else L1 + L2 hit time if it was in L2, else
\* L1 + L2 hit time + memspeed, and never anything else.
C5_Step ==
  AllEnabled =>
    LastCall.lat =
      IF InOwnL1(LastCall.op, LastCall.addr) THEN L1HitTime(LastCall.op)
      ELSE IF InL2(LastCall.addr) THEN L1HitTime(LastCall.op) + l2cacheHitTime
      ELSE L1HitTime(LastCall.op) + l2cacheHitTime + memspeed

LevelRefs(X) == IF X = "I" THEN icacheRefs ELSE IF X = "D" THEN dcacheRefs ELSE l2cacheRefs

LevelMisses(X) ==
  IF X = "I" THEN icacheMisses ELSE IF X = "D" THEN dcacheMisses ELSE l2cacheMisses

LevelPenalties(X) ==
  IF X = "I" THEN icachePenalties
  ELSE IF X = "D" THEN dcachePenalties ELSE l2cachePenalties

\* Every call since init_cache was the same address through the entry point op.
SameCallRun(op) ==
  /\ Len(hist) >= 1
  /\ \A k \in 1 .. Len(hist) : hist[k].op = op /\ hist[k].addr = hist[1].addr

\* What the level below an L1 costs on a miss everywhere below.
FullPenalty == IF l2cacheSets = 0 THEN memspeed ELSE l2cacheHitTime + memspeed

\* C6: from a fresh hierarchy, one address accessed N times through an enabled
\* L1 gives one miss (latency with the lower-level penalty) and then N-1 hits at
\* that L1's hit time; the L1 ends with 1 miss, N references and the penalty of
\* the first call alone.
C6_SingleAddressRun ==
  \A op \in {"I", "D"} :
     (L1Sets(op) # 0 /\ SameCallRun(op)) =>
        /\ hist[1].lat = L1HitTime(op) + FullPenalty
        /\ \A k \in 2 .. Len(hist) : hist[k].lat = L1HitTime(op)
        /\ LevelMisses(op) = 1
        /\ LevelRefs(op) = Len(hist)
        /\ LevelPenalties(op) = hist[1].lat - L1HitTime(op)

\* C6 witness: the same address has gone three times or more through an enabled L1.
C6_Witness ==
  \E op \in {"I", "D"} :
     /\ L1Sets(op) # 0 /\ SameCallRun(op) /\ Len(hist) >= 3
     /\ hist[Len(hist)].lat = L1HitTime(op)

\* ------------------------------------------------------------------ bypass

\* No statistics were recorded for a level whose set count is 0.
BypassedLevelsSilent ==
  \A X \in Levels :
     LevelSets(X) = 0 => LevelRefs(X) = 0 /\ LevelMisses(X) = 0 /\ LevelPenalties(X) = 0

\* The latency a call owes to the enabled levels on its path only: the L1 hit
\* time if that L1 is enabled, then (on an L1 miss or bypass) the L2 hit time if
\* L2 is enabled, then (on an L2 miss or bypass) memspeed.
PathLatency(op, addr) ==
  (IF L1Sets(op) # 0 THEN L1HitTime(op) ELSE 0)
  + (IF InOwnL1(op, addr) THEN 0
     ELSE (IF l2cacheSets # 0 THEN l2cacheHitTime ELSE 0)
          + (IF InL2(addr) THEN 0 ELSE memspeed))

\* C7: a level with set count 0 keeps all its counters at 0 and adds nothing to
\* any latency; on a full miss the latency is the sum of the enabled levels' hit
\* times on the path plus memspeed.
C7_Step ==
  (L1Sets(LastCall.op) = 0 \/ l2cacheSets = 0) =>
     /\ LastCall.lat = PathLatency(LastCall.op, LastCall.addr)
     /\ (~InOwnL1(LastCall.op, LastCall.addr) /\ ~InL2(LastCall.addr)) =>
           LastCall.lat = (IF L1Sets(LastCall.op) # 0 THEN L1HitTime(LastCall.op) ELSE 0)
                          + (IF l2cacheSets # 0 THEN l2cacheHitTime ELSE 0) + memspeed

C7_Bypass == [](BypassedLevelsSilent) /\ [][C7_Step]_vars

\* C7 witness: calls have gone through a bypassed L1 into an enabled L2 both as
\* an L2 miss and as an L2 hit, with the bypassed L1's counters still 0.
C7_Witness ==
  /\ dcacheSets = 0 /\ l2cacheSets # 0
  /\ dcacheRefs = 0
  /\ \E j, k \in 1 .. Len(hist) :
       /\ hist[j].op = "D" /\ hist[j].lat = l2cacheHitTime + memspeed
       /\ hist[k].op = "D" /\ hist[k].lat = l2cacheHitTime


\* ------------------------------------------------------- set invariants

\* The valid ways of set s of level X.
ValidWays(X, s) == {w \in DOMAIN LevelTags(X)[s] : IsValid(LevelTags(X)[s][w])}

\* C8: in every set of every cache at most associativity slots are valid and
\* no two valid slots hold the same tag.
C8_SetInvariant ==
  \A X \in Levels : \A s \in DOMAIN LevelTags(X) :
     /\ Cardinality(ValidWays(X, s)) <= LevelAssoc(X)
     /\ \A v, w \in ValidWays(X, s) :
          v # w => LevelTags(X)[s][v] # LevelTags(X)[s][w]

\* C8 witness: a full 2-way set whose second way was hit again later (the block
\* was looked up while present and not inserted twice).
C8_Witness ==
  \E op \in {"I", "D"} :
     /\ L1Sets(op) # 0 /\ LevelAssoc(op) = 2
     /\ \E s \in DOMAIN LevelTags(op) : ValidWays(op, s) = {0, 1}
     /\ Len(hist) >= 3
     /\ hist[1].op = op /\ hist[2].op = op /\ hist[3].op = op
     /\ hist[3].addr = hist[2].addr /\ hist[3].lat = L1HitTime(op)
     /\ hist[2].lat # L1HitTime(op)

\* ------------------------------------------------- direct-mapped conflict

\* L1-I disabled, L1-D and L2 both 1-way with the same set count, inclusive.
DirectMappedPair ==
  /\ icacheSets = 0 /\ dcacheSets # 0 /\ dcacheSets = l2cacheSets
  /\ dcacheAssoc = 1 /\ l2cacheAssoc = 1 /\ inclusive = 1

\* C9: in that configuration, from a fresh hierarchy, data accesses [a, b, a]
\* to two distinct blocks of one set each return the full-miss latency.
C9_ConflictRun ==
  (/\ DirectMappedPair
   /\ Len(hist) = 3
   /\ \A k \in 1 .. 3 : hist[k].op = "D"
   /\ hist[3].addr = hist[1].addr
   /\ BlockOf(hist[1].addr) # BlockOf(hist[2].addr)
   /\ IndexOf(hist[1].addr, dcacheSets) = IndexOf(hist[2].addr, dcacheSets))
  => \A k \in 1 .. 3 : hist[k].lat = dcacheHitTime + l2cacheHitTime + memspeed

\* ----------------------------------------------------------------- frame

\* C10: a data access changes no L1-I tag, recency value or counter, and an
\* instruction access changes none of L1-D's.
C10_Step ==
  /\ LastCall.op = "D" => UNCHANGED iVars
  /\ LastCall.op = "I" => UNCHANGED dVars

C10_OwnershipFrame == [][C10_Step]_vars

\* C10 witness: both L1s are enabled and hold blocks, and the last call was a
\* data access that missed while L1-I had already been used.
C10_Witness ==
  /\ icacheSets # 0 /\ dcacheSets # 0
  /\ icacheMisses >= 1 /\ dcacheMisses >= 1
  /\ Len(hist) >= 2
  /\ hist[Len(hist)].op = "D" /\ hist[Len(hist)].lat # dcacheHitTime
  /\ \E k \in 1 .. Len(hist) - 1 : hist[k].op = "I"


\* ----------------------------------------------------------- determinism

\* C11: a hierarchy initialized by init_cache and fed the same ordered calls as
\* an earlier freshly initialized run of the same configuration returns the
\* same latency call by call and ends with the same nine counters.
C11_ReplayDeterminism ==
  prev.run =>
     /\ \A k \in 1 .. Len(hist) : hist[k] = prev.calls[k]
     /\ Len(hist) = Len(prev.calls) => Stats = prev.stats

\* C11 witness: a three-call run that evicted from L2 and enforced inclusion has
\* been replayed to its end.
C11_Witness ==
  /\ prev.run /\ Len(prev.calls) = 3 /\ Len(hist) = 3
  /\ inclusive = 1 /\ l2_did_evict
  /\ l2cacheMisses = 3

\* ------------------------------------------------ the inclusion enforcer

LevelLru(X) ==
  IF X = "I" THEN l1i_lru_storage
  ELSE IF X = "D" THEN l1d_lru_storage ELSE l2_lru_storage

\* The arrays of level X when the step's call returns.
TagsAfter(X) ==
  IF X = "I" THEN l1i_tag_storage'
  ELSE IF X = "D" THEN l1d_tag_storage' ELSE l2_tag_storage'

LruAfter(X) ==
  IF X = "I" THEN l1i_lru_storage'
  ELSE IF X = "D" THEN l1d_lru_storage' ELSE l2_lru_storage'

\* The way a miss of addr at level X overwrites, chosen in the state before
\* the call.
MissVictim(X, addr) ==
  VictimWay(LevelLru(X)[IndexOf(addr, LevelSets(X))], LevelAssoc(X))

\* The tag slot (s, w) of level X holds once a miss of addr at X has inserted
\* addr's tag into its victim slot, before anything else runs.
TagAfterInsert(X, addr, s, w) ==
  IF s = IndexOf(addr, LevelSets(X)) /\ w = MissVictim(X, addr)
  THEN TagOf(addr, LevelSets(X))
  ELSE LevelTags(X)[s][w]

\* C12: with inclusive=1, after a call's L2 access evicted the valid block B,
\* the only slots of the requesting L1 whose tag the enforcer removes held
\* exactly B (B's tag, in B's set); in particular the block the call has just
\* inserted is still in that L1 when the call returns.
C12_Step ==
  LET X == LastCall.op
      a == LastCall.addr
  IN (inclusive = 1 /\ L1Sets(X) # 0 /\ L2EvictedValid) =>
       /\ \A s \in 0 .. LevelSets(X) - 1 : \A w \in 0 .. LevelAssoc(X) - 1 :
            TagsAfter(X)[s][w] # TagAfterInsert(X, a, s, w) =>
               /\ s = IndexOf(L2EvictedBlock, LevelSets(X))
               /\ TagAfterInsert(X, a, s, w) = TagOf(L2EvictedBlock, LevelSets(X))
       /\ Holds(TagsAfter(X), LevelSets(X), LevelAssoc(X), a)

C12_EnforcerRemovesOnlyEvicted == [][C12_Step]_vars


\* ------------------------------------------------------ victim selection

\* This step's call missed at level X.
MissedAt(X) ==
  IF X = "I" THEN icacheMisses' = icacheMisses + 1
  ELSE IF X = "D" THEN dcacheMisses' = dcacheMisses + 1
  ELSE l2cacheMisses' = l2cacheMisses + 1

\* The lowest way among those holding the largest recency value of a set.
FirstLargest(lru, assoc) ==
  Min({w \in 0 .. assoc - 1 : \A j \in 0 .. assoc - 1 : lru[j] <= lru[w]})

\* C13: on a miss at any of the three caches, the slot overwritten is the
\* lowest way among those holding the largest recency value the set had before
\* the miss; it ends with the new tag and recency 0, and every other slot of the
\* set keeps its tag and is aged by one, except L1 slots at the sentinel, which
\* keep their recency. (A slot of the requesting L1 that the inclusion enforcer
\* clears later in the same call ends empty with the sentinel recency instead.)
C13_Step ==
  \A X \in Levels :
    MissedAt(X) =>
      LET a == LastCall.addr
          set == IndexOf(a, LevelSets(X))
          lru == LevelLru(X)[set]
          v == FirstLargest(lru, LevelAssoc(X))
      IN \A w \in 0 .. LevelAssoc(X) - 1 :
           \/ /\ TagsAfter(X)[set][w] =
                   (IF w = v THEN TagOf(a, LevelSets(X)) ELSE LevelTags(X)[set][w])
              /\ LruAfter(X)[set][w] =
                   (IF w = v THEN 0
                    ELSE IF X # "L2" /\ lru[w] = UINT32_MAX THEN lru[w]
                    ELSE lru[w] + 1)
           \/ /\ X # "L2" /\ inclusive = 1 /\ l2_did_evict'
              /\ TagsAfter(X)[set][w] = 0
              /\ LruAfter(X)[set][w] = UINT32_MAX

ForcedInvalid(X, s, w) ==
  LevelTags(X)[s][w] = 0 /\ LevelLru(X)[s][w] = UINT32_MAX

\* C14: a forced-invalid L1 slot keeps its sentinel recency through every later
\* hit and miss until a miss in its set fills it; and at every level a miss in
\* a set that still has an empty slot (never filled or forced-invalid) replaces
\* no valid block: each valid slot of the set keeps its tag, unless it is the
\* slot the enforcer clears for the address L2 recorded in this call.
C14_Step ==
  /\ \A X \in {"I", "D"} :
       \A s \in 0 .. LevelSets(X) - 1 : \A w \in 0 .. LevelAssoc(X) - 1 :
          ForcedInvalid(X, s, w) =>
             \/ TagsAfter(X)[s][w] = 0 /\ LruAfter(X)[s][w] = UINT32_MAX
             \/ /\ MissedAt(X) /\ LastCall.op = X
                /\ s = IndexOf(LastCall.addr, LevelSets(X))
                /\ TagsAfter(X)[s][w] = TagOf(LastCall.addr, LevelSets(X))
                /\ LruAfter(X)[s][w] = 0
  /\ \A X \in Levels :
       LET S == LevelSets(X)
           set == IndexOf(LastCall.addr, S)
       IN (MissedAt(X) /\ \E e \in 0 .. LevelAssoc(X) - 1 : ~IsValid(LevelTags(X)[set][e])) =>
            \A w \in 0 .. LevelAssoc(X) - 1 :
               IsValid(LevelTags(X)[set][w]) =>
                  \/ TagsAfter(X)[set][w] = LevelTags(X)[set][w]
                  \/ /\ X # "L2" /\ inclusive = 1 /\ l2_did_evict'
                     /\ set = IndexOf(l2_evicted_addr', S)
                     /\ LevelTags(X)[set][w] = TagOf(l2_evicted_addr', S)
                     /\ TagsAfter(X)[set][w] = 0

C14_ForcedInvalidSlots == [][C14_Step]_vars


\* C14 witness: an L1-I hit in a set that has a forced-invalid slot; the slot is
\* still empty with the sentinel recency after the hit.
C14_Witness ==
  /\ Len(hist) = 4 /\ icacheSets # 0 /\ inclusive = 1
  /\ hist[4].op = "I" /\ hist[4].lat = icacheHitTime
  /\ \E w \in 0 .. icacheAssoc - 1 :
        ForcedInvalid("I", IndexOf(hist[4].addr, icacheSets), w)


\* ------------------------------------------------- the L2 eviction signal

\* C15: when a call that reached l2cache_access returns, l2_did_evict is true
\* exactly when L2 is enabled, the access missed in L2 and the slot it
\* overwrote held a valid block (so an L2 hit, a miss into an empty slot and a
\* bypassed L2 leave it false); and an L1 slot becomes forced-invalid only in a
\* call whose own L2 access evicted a valid block, with inclusive=1.
C15_Step ==
  LET set == IndexOf(LastCall.addr, l2cacheSets)
      evictedValid ==
        /\ l2cacheSets # 0
        /\ MissedAt("L2")
        /\ IsValid(l2_tag_storage[set][FirstLargest(l2_lru_storage[set], l2cacheAssoc)])
  IN /\ ReachedL2(LastCall) => (l2_did_evict' <=> evictedValid)
     /\ \A X \in {"I", "D"} :
          \A s \in 0 .. LevelSets(X) - 1 : \A w \in 0 .. LevelAssoc(X) - 1 :
             ( /\ TagsAfter(X)[s][w] = 0 /\ LruAfter(X)[s][w] = UINT32_MAX
               /\ ~ForcedInvalid(X, s, w) ) =>
                /\ inclusive = 1 /\ LastCall.op = X
                /\ ReachedL2(LastCall) /\ evictedValid

C15_EvictionSignal == [][C15_Step]_vars

\* C15 witness: with L1-I bypassed and a one-slot L2, two misses (the second
\* replacing the block of the first) are followed by an L2 hit, after which the
\* signal is false.
C15_Witness ==
  /\ icacheSets = 0 /\ l2cacheSets = 1 /\ l2cacheAssoc = 1
  /\ Len(hist) = 3
  /\ \A k \in 1 .. 3 : hist[k].op = "I"
  /\ hist[1].lat = l2cacheHitTime + memspeed
  /\ hist[2].lat = l2cacheHitTime + memspeed
  /\ hist[3].lat = l2cacheHitTime
  /\ ~l2_did_evict


\* ------------------------------------------------ non-inclusive hierarchy

\* No L1 slot carries the sentinel recency.
NoSentinel ==
  \A X \in {"I", "D"} :
     \A s \in 0 .. LevelSets(X) - 1 : \A w \in 0 .. LevelAssoc(X) - 1 :
        LevelLru(X)[s][w] # UINT32_MAX

\* A valid L1 slot stays valid, and its tag changes only when a miss of its
\* own L1 in its set picks it as the victim (the lowest way of largest recency).
C16_Step ==
  \A X \in {"I", "D"} :
     \A s \in 0 .. LevelSets(X) - 1 : \A w \in 0 .. LevelAssoc(X) - 1 :
        IsValid(LevelTags(X)[s][w]) =>
           /\ IsValid(TagsAfter(X)[s][w])
           /\ TagsAfter(X)[s][w] # LevelTags(X)[s][w] =>
                 /\ LastCall.op = X /\ MissedAt(X)
                 /\ s = IndexOf(LastCall.addr, LevelSets(X))
                 /\ w = FirstLargest(LevelLru(X)[s], LevelAssoc(X))

\* C16: with inclusive=0 no L1 slot ever has the sentinel recency, no filled L1
\* slot becomes empty again, and a block leaves an L1 only as that L1's own
\* LRU victim on that L1's own miss.
C16_NonInclusive ==
  /\ [](inclusive = 0 => NoSentinel)
  /\ [][inclusive = 0 => C16_Step]_vars

\* C16 witness: with inclusive=0, L2 has evicted a valid block, and the block of
\* the first call (an L1-I call) is still in L1-I although L2 no longer has it.
C16_Witness ==
  /\ inclusive = 0 /\ AllEnabled /\ l2_did_evict
  /\ Len(hist) >= 3 /\ hist[1].op = "I"
  /\ Holds(l1i_tag_storage, icacheSets, icacheAssoc, hist[1].addr)
  /\ ~InL2(hist[1].addr)


\* ------------------------------------------------------------- L1 hits

\* The other L1.
Other(X) == IF X = "I" THEN "D" ELSE "I"

\* The counters of level X when the step's call returns.
RefsAfter(X) ==
  IF X = "I" THEN icacheRefs' ELSE IF X = "D" THEN dcacheRefs' ELSE l2cacheRefs'

MissesAfter(X) ==
  IF X = "I" THEN icacheMisses' ELSE IF X = "D" THEN dcacheMisses' ELSE l2cacheMisses'

PenaltiesAfter(X) ==
  IF X = "I" THEN icachePenalties'
  ELSE IF X = "D" THEN dcachePenalties' ELSE l2cachePenalties'

\* C17: a call that finds its block in its enabled L1 changes no tag in any
\* cache, nothing of L2 (arrays, counters, eviction signal and address) and
\* nothing of the other L1; its own miss and penalty counters keep their
\* values, its reference counter grows by one, and in its arrays only the
\* recency values of the hit set change: the hit slot becomes 0, every other
\* slot not at the sentinel is aged by one, slots at the sentinel are kept.
C17_Step ==
  LET X == LastCall.op
      a == LastCall.addr
      S == LevelSets(X)
      set == IndexOf(a, S)
  IN InOwnL1(X, a) =>
       /\ LastCall.lat = L1HitTime(X)
       /\ UNCHANGED <<l2Vars, cfgVars>>
       /\ TagsAfter(X) = LevelTags(X)
       /\ TagsAfter(Other(X)) = LevelTags(Other(X))
       /\ LruAfter(Other(X)) = LevelLru(Other(X))
       /\ RefsAfter(Other(X)) = LevelRefs(Other(X))
       /\ MissesAfter(Other(X)) = LevelMisses(Other(X))
       /\ PenaltiesAfter(Other(X)) = LevelPenalties(Other(X))
       /\ RefsAfter(X) = LevelRefs(X) + 1
       /\ MissesAfter(X) = LevelMisses(X)
       /\ PenaltiesAfter(X) = LevelPenalties(X)
       /\ \A s \in 0 .. S - 1 : \A w \in 0 .. LevelAssoc(X) - 1 :
            LruAfter(X)[s][w] =
              (IF s # set THEN LevelLru(X)[s][w]
               ELSE IF LevelTags(X)[s][w] = TagOf(a, S) THEN 0
               ELSE IF LevelLru(X)[s][w] = UINT32_MAX THEN UINT32_MAX
               ELSE LevelLru(X)[s][w] + 1)

C17_L1HitFrame == [][C17_Step]_vars

\* C17 witness: the third call hits in a two-way L1-D set whose other way holds
\* a valid block; L2 has seen only the two earlier misses.
C17_Witness ==
  /\ AllEnabled /\ dcacheAssoc = 2 /\ Len(hist) = 3
  /\ \A k \in 1 .. 3 : hist[k].op = "D"
  /\ hist[3].addr = hist[1].addr /\ hist[3].lat = dcacheHitTime
  /\ LET set == IndexOf(hist[3].addr, dcacheSets)
     IN /\ l1d_tag_storage[set][0] = TagOf(hist[3].addr, dcacheSets)
        /\ IsValid(l1d_tag_storage[set][1])
        /\ l1d_lru_storage[set][0] = 0 /\ l1d_lru_storage[set][1] = 1
  /\ dcacheRefs = 3 /\ dcacheMisses = 2 /\ l2cacheRefs = 2


\* -------------------------------------------------- counter consistency

\* C18: with all three levels enabled, at every level misses <= references;
\* every L2 reference is an L1 miss; l2cachePenalties is memspeed per L2 miss;
\* and the two L1 penalty totals add up to l2cacheHitTime per L2 reference
\* plus memspeed per L2 miss.
C18_CounterConsistency ==
  AllEnabled =>
     /\ icacheMisses <= icacheRefs
     /\ dcacheMisses <= dcacheRefs
     /\ l2cacheMisses <= l2cacheRefs
     /\ l2cacheRefs = icacheMisses + dcacheMisses
     /\ l2cachePenalties = l2cacheMisses * memspeed
     /\ icachePenalties + dcachePenalties =
           l2cacheRefs * l2cacheHitTime + l2cacheMisses * memspeed

\* C18 witness: after four calls both L1s have missed, one L1 has also hit, and
\* one L2 reference was an L2 hit.
C18_Witness ==
  /\ AllEnabled /\ Len(hist) = 4
  /\ icacheMisses >= 1 /\ dcacheMisses >= 1
  /\ icacheRefs + dcacheRefs > icacheMisses + dcacheMisses
  /\ l2cacheMisses >= 1 /\ l2cacheMisses < l2cacheRefs


\* -------------------------------------------------- post-access residency

\* C19: with all levels enabled (inclusive or not), when dataAccess(a) or
\* instructionAccess(a) returns, a's block is in the L1 that served the call
\* and in L2; and a call that repeats the previous call (same entry point,
\* same address) returns only that L1's hit time.
C19_Step ==
  LET X == LastCall.op
      a == LastCall.addr
  IN AllEnabled =>
       /\ Holds(TagsAfter(X), LevelSets(X), LevelAssoc(X), a)
       /\ Holds(l2_tag_storage', l2cacheSets, l2cacheAssoc, a)
       /\ (Len(hist) >= 1 /\ hist[Len(hist)].op = X /\ hist[Len(hist)].addr = a) =>
             LastCall.lat = L1HitTime(X)

C19_PostAccessResidency == [][C19_Step]_vars


\* ------------------------------------------------------- tag injectivity

\* Every address of the word width.
Words == 0 .. UINT32_MAX

\* C20: at every enabled level, two addresses of distinct blocks that decode
\* to the same set never get the same stored tag once the flag bit is OR-ed in;
\* so a call hits in its L1 only if an earlier call through the same entry
\* point accessed the same block.
C20_TagInjectivity ==
  /\ \A X \in Levels :
       LevelSets(X) # 0 =>
          \A a, b \in Words :
             ( /\ BlockOf(a) # BlockOf(b)
               /\ IndexOf(a, LevelSets(X)) = IndexOf(b, LevelSets(X)) ) =>
                TagOf(a, LevelSets(X)) # TagOf(b, LevelSets(X))
  /\ \A k \in 1 .. Len(hist) :
       (L1Sets(hist[k].op) # 0 /\ hist[k].lat = L1HitTime(hist[k].op)) =>
          \E j \in 1 .. k - 1 :
             /\ hist[j].op = hist[k].op
             /\ BlockOf(hist[j].addr) = BlockOf(hist[k].addr)


=============================================================================
